---- MODULE Spec2Model ----
(***************************************************************************)
(* A model of tensorrt_llm/builder.py: the builder configuration, the      *)
(* optimization-profile construction and named-dimension validation, the   *)
(* build / refit control flow under the IS_BUILDING flag, BuildConfig's    *)
(* dictionary form, and the Engine directory layout.                       *)
(***************************************************************************)
EXTENDS Integers, Sequences, FiniteSets, TLC

(***************************************************************************)
(* Bounds of the model.                                                    *)
(***************************************************************************)
\* most dimensions a shape profile of the validation universe declares
MaxDims == 2
\* most shape profiles an input tensor of a built network declares
MaxProfiles == 2
\* most named parameters of a network
MaxParams == 2
\* most optimization profiles a native config accumulates (guards the counter)
MaxAttached == 4
\* the ranks of a multi-rank build (mapping.world_size)
WorldSize == 2

(***************************************************************************)
(* Small helpers.                                                          *)
(***************************************************************************)
SeqsUpTo(S, n) == UNION {[1..k -> S] : k \in 0..n}

NonEmptySeqsUpTo(S, n) == UNION {[1..k -> S] : k \in 1..n}

SeqRange(s) == {s[i] : i \in 1..Len(s)}

(***************************************************************************)
(* Network inputs: an ordered mapping input name -> tensor, each tensor    *)
(* with an ordered list of shape profiles; a shape profile has per-        *)
(* dimension names and min / opt / max extents.                            *)
(***************************************************************************)
DimNames == {"batch_size", "seq_len"}

Ranges == {<<1, 16, 32>>, <<1, 16, 64>>}

\* a shape profile from its dimensions, each a pair <<name, <<min, opt, max>>>>
ShapeProfile(dims) ==
    [dimension_names |-> [i \in 1..Len(dims) |-> dims[i][1]],
     min |-> [i \in 1..Len(dims) |-> dims[i][2][1]],
     opt |-> [i \in 1..Len(dims) |-> dims[i][2][2]],
     max |-> [i \in 1..Len(dims) |-> dims[i][2][3]]]

ShapeProfiles(names, nd) ==
    {ShapeProfile(dims) : dims \in NonEmptySeqsUpTo(names \X Ranges, nd)}

Tensor(input_name, profiles) == [name |-> input_name, profiles |-> profiles]

(***************************************************************************)
(* Builder._validate_named_dimensions.  dimension_to_range is a dict in    *)
(* insertion order: its keys as a sequence, its values as a function.      *)
(***************************************************************************)
EmptyDict == [keys |-> <<>>, val |-> [k \in {} |-> <<>>]]

DictSetDefault(d, k) ==
    IF k \in SeqRange(d.keys) THEN d
    ELSE [keys |-> Append(d.keys, k),
          val |-> [x \in SeqRange(d.keys) \cup {k} |->
                     IF x = k THEN <<>> ELSE d.val[x]]]

DictAppend(d, k, e) == [d EXCEPT !.val[k] = Append(@, e)]

RECURSIVE CollectDims(_, _, _, _)
\* for dim_idx, dim_name in enumerate(profile.dimension_names): ... append
CollectDims(d2r, input_name, profile, dim_idx) ==
    IF dim_idx > Len(profile.dimension_names) THEN d2r
    ELSE LET dim_name == profile.dimension_names[dim_idx]
             rng == <<profile.min[dim_idx], profile.opt[dim_idx],
                      profile.max[dim_idx]>>
         IN  CollectDims(DictAppend(DictSetDefault(d2r, dim_name), dim_name,
                                    <<input_name, rng>>),
                         input_name, profile, dim_idx + 1)

RECURSIVE CollectInputs(_, _, _, _)
\* for input_name, input_tensor in network._inputs.items(): a tensor without
\* profiles is skipped; profiles[profile_idx] out of range raises IndexError
CollectInputs(d2r, inputs, profile_idx, k) ==
    IF k > Len(inputs) THEN [raised |-> FALSE, d2r |-> d2r]
    ELSE IF Len(inputs[k].profiles) = 0
         THEN CollectInputs(d2r, inputs, profile_idx, k + 1)
    ELSE IF profile_idx > Len(inputs[k].profiles)
         THEN [raised |-> TRUE, d2r |-> d2r]
    ELSE CollectInputs(CollectDims(d2r, inputs[k].name,
                                   inputs[k].profiles[profile_idx], 1),
                       inputs, profile_idx, k + 1)

UniqueRangesMutant(ranges) == {r[2][1] : r \in SeqRange(ranges)}

\* unique_ranges = set([r[1] for r in ranges])
UniqueRanges(ranges) == {r[2] : r \in SeqRange(ranges)}

\* the two logger.error calls of one offending dimension: the profile index
\* as Python prints it, then one line "range dim tensor" per entry of ranges
ErrorReport(profile_idx, dim, ranges) ==
    [profile_idx |-> profile_idx - 1, dim |-> dim,
     tensors |-> [i \in 1..Len(ranges) |-> <<ranges[i][2], dim, ranges[i][1]>>]]

RECURSIVE CheckDims(_, _, _, _)
\* for dim, ranges in dimension_to_range.items(): ... valid = False
CheckDims(acc, d2r, profile_idx, j) ==
    IF j > Len(d2r.keys) THEN acc
    ELSE LET dim == d2r.keys[j]
             ranges == d2r.val[dim]
         IN  CheckDims(IF Cardinality(UniqueRanges(ranges)) # 1
                       THEN [acc EXCEPT !.valid = FALSE,
                                        !.errors = Append(@,
                                            ErrorReport(profile_idx, dim, ranges))]
                       ELSE acc,
                       d2r, profile_idx, j + 1)

RECURSIVE ValidateProfiles(_, _, _, _)
\* for profile_idx in range(num_optimization_profiles): profile_idx is
\* 1-based here, Python's profile_idx + 1
ValidateProfiles(acc, inputs, num_optimization_profiles, profile_idx) ==
    IF profile_idx > num_optimization_profiles THEN acc
    ELSE LET c == CollectInputs(EmptyDict, inputs, profile_idx, 1)
         IN  IF c.raised THEN [acc EXCEPT !.raised = TRUE]
             ELSE ValidateProfiles(CheckDims(acc, c.d2r, profile_idx, 1),
                                   inputs, num_optimization_profiles,
                                   profile_idx + 1)

\* returns valid; raised marks an IndexError escaping the loop
ValidateNamedDimensions(inputs, num_optimization_profiles) ==
    ValidateProfiles([raised |-> FALSE, valid |-> TRUE, errors |-> <<>>],
                     inputs, num_optimization_profiles, 1)


(***************************************************************************)
(* State.  Calls into the compiler library (tensorrt) are the environment: *)
(* a call fails in the ways the code tests for (a None / False result),    *)
(* chosen nondeterministically; a result the code does not read is not     *)
(* modelled as a failure.                                                  *)
(***************************************************************************)
VARIABLES
    environ,          \* 'IS_BUILDING' in os.environ
    strongly_typed,   \* Builder.strongly_typed
    trt_version,      \* trt_version(), a triple <<major, minor, patch>>
    network,          \* the Network the caller holds
    builder_config,   \* the BuilderConfig the caller holds, its native config inside
    config_call,      \* the last create_builder_config call: arguments, messages logged
    frame,            \* the build_engine / refit_engine call in progress
    log,              \* compiler calls made by the call in progress or last ended
    validation,       \* what _validate_named_dimensions did in that call
    result,           \* how the last build_engine / refit_engine call ended
    bc_dict,          \* a dictionary handed to BuildConfig.from_dict
    bc,               \* the BuildConfig made from it
    bc_again,         \* from_dict(to_dict()) of that BuildConfig
    engines,          \* the Engine each rank's process holds
    engine_dir,       \* the engine directory: config.json and rank{N}.engine
    save_calls,       \* the ranks whose Engine.save was called
    loaded,           \* the last Engine.from_dir call and what it gave
    version_result,   \* the last get_engine_version call and what it gave
    shard             \* the build_shard_model call: its model, how far it got

builderVars == <<environ, strongly_typed, trt_version, network, builder_config,
                 config_call, frame, log, validation, result>>

configVars == <<bc_dict, bc, bc_again>>

persistVars == <<engines, engine_dir, save_calls, loaded, version_result>>

shardVars == <<shard>>

vars == <<builderVars, configVars, persistVars, shardVars>>

(***************************************************************************)
(* Builder.__init__ and Builder.create_network.                            *)
(***************************************************************************)
TrtVersions == {<<9, 0, 1>>, <<9, 1, 0>>}

\* version.parse(a) >= version.parse(b) on release triples
VersionAtLeast(a, b) ==
    \/ a[1] > b[1]
    \/ a[1] = b[1] /\ a[2] > b[2]
    \/ a[1] = b[1] /\ a[2] = b[2] /\ a[3] >= b[3]

NoNamedParameters == [set |-> FALSE, params |-> <<>>]

NamedParameters(params) == [set |-> TRUE, params |-> params]

NoNetwork ==
    [exists |-> FALSE, flags |-> {}, inputs |-> <<>>,
     named_parameters |-> NoNamedParameters]

\* the creation flags of the network create_network returns
CreateNetworkFlags(version, st) ==
    {"EXPLICIT_BATCH"} \cup
    (IF VersionAtLeast(version, <<9, 1, 0>>) /\ st THEN {"STRONGLY_TYPED"} ELSE {})

(***************************************************************************)
(* Builder.create_builder_config.                                          *)
(***************************************************************************)
_ALLOWED_PRECISIONS == {"float32", "float16", "bfloat16"}

Precisions == _ALLOWED_PRECISIONS \cup {"int4"}

\* the timing_cache argument: None, an ITimingCache, a path (to a file whose
\* bytes the compiler accepts or not, or to no file), or another value
TimingCacheArgs ==
    {"None", "handle", "path_valid", "path_rejected", "path_missing", "other"}

QuantFlags == {"FP8_QDQ", "FP8_KV_CACHE"}

\* **kwargs: with or without a quant_mode
NoKwargs == [has_quant_mode |-> FALSE, quant_mode |-> {}]

KwargsSet == {NoKwargs} \cup
             {[has_quant_mode |-> TRUE, quant_mode |-> {q}] : q \in QuantFlags}

\* opt_level: None, or a level
NoOptLevel == [given |-> FALSE, level |-> 0]

has_fp8_qdq(quant_mode) == "FP8_QDQ" \in quant_mode

has_fp8_kv_cache(quant_mode) == "FP8_KV_CACHE" \in quant_mode

\* config.create_timing_cache(f.read()): "None" when the bytes are rejected
CreateTimingCache(bytes) ==
    CASE bytes = "empty" -> "fresh"
      [] bytes = "valid" -> "from_file"
      [] OTHER -> "None"

ResolveTimingCacheMutant(timing_cache) ==
    CASE timing_cache = "handle" -> "given"
      [] timing_cache = "path_valid" -> CreateTimingCache("valid")
      [] timing_cache = "path_rejected" -> CreateTimingCache("rejected")
      [] OTHER -> "None"

\* lines 167-181: the cache handed to set_timing_cache
ResolveTimingCache(timing_cache) ==
    LET cache == CASE timing_cache = "handle" -> "given"
                   [] timing_cache = "path_valid" -> CreateTimingCache("valid")
                   [] timing_cache = "path_rejected" -> CreateTimingCache("rejected")
                   [] OTHER -> "None"
    IN  IF cache = "None" THEN CreateTimingCache("empty") ELSE cache

\* the messages create_builder_config logs
ConfigMessages(precision, timing_cache, use_refit, int8, st) ==
    (IF ~st /\ precision \notin _ALLOWED_PRECISIONS
     THEN {"precision should be one of _ALLOWED_PRECISIONS"} ELSE {}) \cup
    (IF use_refit /\ int8
     THEN {"can't use refit and int8 mode at the same time"} ELSE {}) \cup
    (IF timing_cache \in {"path_missing", "other"}
     THEN {"Invalid timing cache, using freshly created one"} ELSE {})

\* the flags set on the native config
ConfigFlags(precision, use_refit, int8, st, kwargs) ==
    LET quant_mode == IF kwargs.has_quant_mode THEN kwargs.quant_mode ELSE {}
        fp8 == has_fp8_qdq(quant_mode) \/ has_fp8_kv_cache(quant_mode)
    IN  (IF ~st /\ precision = "float16"
         THEN {"FP16", "OBEY_PRECISION_CONSTRAINTS"} ELSE {}) \cup
        (IF ~st /\ precision = "bfloat16"
         THEN {"BF16", "OBEY_PRECISION_CONSTRAINTS"} ELSE {}) \cup
        (IF ~st /\ int8 THEN {"INT8"} ELSE {}) \cup
        (IF ~st /\ fp8 THEN {"FP8", "OBEY_PRECISION_CONSTRAINTS"} ELSE {}) \cup
        (IF use_refit THEN {"REFIT"} ELSE {})

NoBuilderConfig ==
    [exists |-> FALSE,
     trt_builder_config |->
        [flags |-> {}, profile_sharing |-> FALSE,
         builder_optimization_level |-> NoOptLevel, timing_cache |-> "None",
         num_optimization_profiles |-> 0],
     precision |-> "", tensor_parallel |-> 0, use_refit |-> FALSE,
     int8 |-> FALSE, kwargs |-> NoKwargs, plugin_config |-> "unset"]

\* the BuilderConfig create_builder_config returns
NewBuilderConfig(precision, timing_cache, tensor_parallel, use_refit, int8, st, opt_level, kwargs) ==
    [exists |-> TRUE,
     trt_builder_config |->
        [flags |-> ConfigFlags(precision, use_refit, int8, st, kwargs),
         profile_sharing |-> TRUE,
         builder_optimization_level |-> opt_level,
         timing_cache |-> ResolveTimingCache(timing_cache),
         num_optimization_profiles |-> 0],
     precision |-> precision, tensor_parallel |-> tensor_parallel,
     use_refit |-> use_refit, int8 |-> int8, kwargs |-> kwargs,
     plugin_config |-> "unset"]

\* the assert of line 184: no BuilderConfig is returned when it fails
TimingCacheAsserted(timing_cache) == ResolveTimingCache(timing_cache) # "None"


NoConfigCall ==
    [called |-> FALSE, timing_cache |-> "None", use_refit |-> FALSE,
     int8 |-> FALSE, strongly_typed |-> FALSE, kwargs |-> NoKwargs,
     messages |-> {}, returned |-> FALSE]

ConfigCall(precision, timing_cache, use_refit, int8, st, kwargs) ==
    [called |-> TRUE, timing_cache |-> timing_cache, use_refit |-> use_refit,
     int8 |-> int8, strongly_typed |-> st, kwargs |-> kwargs,
     messages |-> ConfigMessages(precision, timing_cache, use_refit, int8, st),
     returned |-> TimingCacheAsserted(timing_cache)]

\* Builder.create_builder_config(precision, timing_cache, tensor_parallel,
\* use_refit, int8, strongly_typed, opt_level, **kwargs)
CreateBuilderConfig(precision, timing_cache, use_refit, int8, st, opt_level, kwargs) ==
    /\ frame.fn = "idle"
    /\ strongly_typed' = st
    /\ config_call' = ConfigCall(precision, timing_cache, use_refit, int8, st, kwargs)
    /\ builder_config' =
          IF TimingCacheAsserted(timing_cache)
          THEN NewBuilderConfig(precision, timing_cache, 1, use_refit, int8, st,
                                opt_level, kwargs)
          ELSE builder_config
    /\ UNCHANGED <<environ, trt_version, network, frame, log, validation, result>>
    /\ UNCHANGED <<configVars, persistVars, shardVars>>

(***************************************************************************)
(* The network a build works on: Builder.create_network, then the model    *)
(* declares its inputs and named parameters (build_shard_model).           *)
(***************************************************************************)
TensorNames == <<"input_ids", "position_ids">>

ParamNames == <<"wte", "wpe", "ln_f", "lm_head">>

\* named parameters, each with its name and whether _get_weights() is not None
ParamLists ==
    {[i \in 1..Len(hw) |-> [name |-> ParamNames[i], has_weights |-> hw[i]]] :
        hw \in SeqsUpTo(BOOLEAN, MaxParams)}

NamedParameterSets == {NoNamedParameters} \cup {NamedParameters(ps) : ps \in ParamLists}

\* the inputs of a built network: every tensor with up to MaxProfiles profiles
\* of one named dimension
BuildInputs ==
    {[k \in 1..Len(TensorNames) |-> Tensor(TensorNames[k], ps[k])] :
        ps \in [1..Len(TensorNames) ->
                  SeqsUpTo(ShapeProfiles({"seq_len"}, 1), MaxProfiles)]}

\* Builder.create_network(): a network without inputs or named parameters
CreateNetwork ==
    /\ frame.fn = "idle"
    /\ network' = [NoNetwork EXCEPT
                     !.exists = TRUE,
                     !.flags = CreateNetworkFlags(trt_version, strongly_typed)]
    /\ UNCHANGED <<environ, strongly_typed, trt_version, builder_config,
                   config_call, frame, log, validation, result>>
    /\ UNCHANGED <<configVars, persistVars, shardVars>>

\* build_shard_model, lines 536-572: create_network, then the model sets the
\* named parameters and declares the inputs
PrepareNetwork(inputs, named_parameters) ==
    /\ frame.fn = "idle"
    /\ ~network.exists
    /\ network' = [exists |-> TRUE,
                   flags |-> CreateNetworkFlags(trt_version, strongly_typed),
                   inputs |-> inputs,
                   named_parameters |-> named_parameters]
    /\ UNCHANGED <<environ, strongly_typed, trt_version, builder_config,
                   config_call, frame, log, validation, result>>
    /\ UNCHANGED <<configVars, persistVars, shardVars>>

(***************************************************************************)
(* _BuildingFlag and the _is_building decorator.                           *)
(***************************************************************************)
Idle == [fn |-> "idle", pc |-> "idle", i |-> 0, engine |-> <<>>,
         ret |-> [kind |-> "none", exc |-> "", buffer |-> <<>>]]

NoResult == [fn |-> "none", kind |-> "none", exc |-> "", buffer |-> <<>>]

Returned(buffer) == [kind |-> "engine", exc |-> "", buffer |-> buffer]

ReturnedNone == [kind |-> "None", exc |-> "", buffer |-> <<>>]

Raised(exc) == [kind |-> "raised", exc |-> exc, buffer |-> <<>>]

NoValidation == [ran |-> FALSE, raised |-> FALSE, valid |-> TRUE, errors |-> <<>>]

Call(op, arg, ok) == [op |-> op, arg |-> arg, ok |-> ok]

\* _BuildingFlag.__enter__
BuildingFlagEnter(env) == TRUE

BuildingFlagExitMutant(env, ret) ==
    IF ret.kind = "raised" THEN [environ |-> env, ret |-> ret]
    ELSE [environ |-> FALSE, ret |-> ret]

\* _BuildingFlag.__exit__, run by the with statement however f ended: del
\* os.environ['IS_BUILDING'] raises KeyError when the key is gone
BuildingFlagExit(env, ret) ==
    IF env THEN [environ |-> FALSE, ret |-> ret]
    ELSE [environ |-> FALSE, ret |-> Raised("KeyError")]

\* decorated(): the end of the with block of build_engine or refit_engine
DecoratedExit ==
    /\ frame.fn # "idle"
    /\ frame.pc = "exit"
    /\ LET x == BuildingFlagExit(environ, frame.ret)
       IN  /\ environ' = x.environ
           /\ result' = [fn |-> frame.fn, kind |-> x.ret.kind, exc |-> x.ret.exc,
                         buffer |-> x.ret.buffer]
    /\ frame' = Idle
    /\ UNCHANGED <<strongly_typed, trt_version, network, builder_config,
                   config_call, log, validation>>
    /\ UNCHANGED <<configVars, persistVars, shardVars>>


(***************************************************************************)
(* Builder._add_optimization_profile and Builder.build_engine.             *)
(***************************************************************************)
EngineBuffers == {<<7>>, <<7, 9>>}

MinProfiles(inputs) ==
    CHOOSE m \in {Len(inputs[k].profiles) : k \in 1..Len(inputs)} :
        \A k \in 1..Len(inputs) : m <= Len(inputs[k].profiles)

AddOptimizationProfileMutant(inputs, num_existing) ==
    IF Len(inputs) = 0
    THEN [added |-> 0, exc |-> "IndexError", validation |-> NoValidation]
    ELSE LET num_profiles == Len(inputs[1].profiles)
             m == MinProfiles(inputs)
         IN  IF m < num_profiles
             THEN [added |-> m, exc |-> "IndexError", validation |-> NoValidation]
             ELSE LET v == ValidateNamedDimensions(inputs, num_existing + num_profiles)
                  IN  [added |-> num_profiles,
                       exc |-> IF v.raised THEN "IndexError" ELSE "",
                       validation |-> [ran |-> TRUE, raised |-> v.raised,
                                       valid |-> v.valid, errors |-> v.errors]]

\* _add_optimization_profile: the profiles added to the native config, the
\* exception that escapes ("" for none), and what the validation found.
\* input_tensors[input_name].profiles[i] raises IndexError on a tensor with
\* fewer profiles than the first one, after the profiles before i were added.
AddOptimizationProfile(inputs, num_existing) ==
    IF Len(inputs) = 0
    THEN [added |-> 0, exc |-> "IndexError", validation |-> NoValidation]
    ELSE LET num_profiles == Len(inputs[1].profiles)
             m == MinProfiles(inputs)
         IN  IF m < num_profiles
             THEN [added |-> m, exc |-> "IndexError", validation |-> NoValidation]
             ELSE LET v == ValidateNamedDimensions(inputs, num_existing + num_profiles)
                  IN  [added |-> num_profiles,
                       exc |-> IF v.raised THEN "IndexError"
                               ELSE IF ~v.valid THEN "AssertionError" ELSE "",
                       validation |-> [ran |-> TRUE, raised |-> v.raised,
                                       valid |-> v.valid, errors |-> v.errors]]

RECURSIVE Repeat(_, _)
Repeat(x, n) == IF n = 0 THEN <<>> ELSE Append(Repeat(x, n - 1), x)

\* decorated(): with _BuildingFlag(), entering build_engine
BuildEngineEnter ==
    /\ frame.fn = "idle"
    /\ network.exists
    /\ builder_config.exists
    /\ builder_config.trt_builder_config.num_optimization_profiles
         + MaxProfiles <= MaxAttached
    /\ environ' = BuildingFlagEnter(environ)
    /\ frame' = [Idle EXCEPT !.fn = "build_engine", !.pc = "profiles"]
    /\ log' = <<>>
    /\ validation' = NoValidation
    /\ result' = NoResult
    /\ UNCHANGED <<strongly_typed, trt_version, network, builder_config, config_call>>
    /\ UNCHANGED <<configVars, persistVars, shardVars>>

\* build_engine, lines 302-304
BuildAddOptimizationProfile ==
    /\ frame.fn = "build_engine"
    /\ frame.pc = "profiles"
    /\ LET r == AddOptimizationProfile(
                    network.inputs,
                    builder_config.trt_builder_config.num_optimization_profiles)
       IN  /\ builder_config' =
                 [builder_config EXCEPT
                    !.plugin_config = "network",
                    !.trt_builder_config.num_optimization_profiles = @ + r.added]
           /\ log' = log \o Repeat(Call("add_optimization_profile", "", TRUE), r.added)
           /\ validation' = r.validation
           /\ frame' = IF r.exc # ""
                       THEN [frame EXCEPT !.pc = "exit", !.ret = Raised(r.exc)]
                       ELSE [frame EXCEPT !.pc = "rename", !.i = 1]
    /\ UNCHANGED <<environ, strongly_typed, trt_version, network, config_call, result>>
    /\ UNCHANGED <<configVars, persistVars, shardVars>>

\* what one turn of the rename loop does with param, set_weights_name
\* answering ok: the compiler call made (if any) and whether the loop goes on
SetWeightsName(param, ok) ==
    IF ~param.has_weights
    THEN [calls |-> <<>>, go_on |-> FALSE]
    ELSE [calls |-> <<Call("set_weights_name", param.name, ok)>>, go_on |-> ok]

\* build_engine, lines 310-315: one turn of the loop
BuildSetWeightsName(ok) ==
    /\ frame.fn = "build_engine"
    /\ frame.pc = "rename"
    /\ network.named_parameters.set
    /\ frame.i <= Len(network.named_parameters.params)
    /\ LET r == SetWeightsName(network.named_parameters.params[frame.i], ok)
       IN  /\ log' = log \o r.calls
           /\ frame' = IF r.go_on
                       THEN [frame EXCEPT !.i = @ + 1]
                       ELSE [frame EXCEPT !.pc = "exit", !.ret = Raised("RuntimeError")]
    /\ UNCHANGED <<environ, strongly_typed, trt_version, network, builder_config,
                   config_call, validation, result>>
    /\ UNCHANGED <<configVars, persistVars, shardVars>>

\* build_engine, lines 317-328: named_parameters is None or the loop is over
BuildSerializedNetwork(ok, buffer) ==
    /\ frame.fn = "build_engine"
    /\ frame.pc = "rename"
    /\ ~(network.named_parameters.set
          /\ frame.i <= Len(network.named_parameters.params))
    /\ log' = Append(log, Call("build_serialized_network", "", ok))
    /\ frame' = [frame EXCEPT !.pc = "exit",
                              !.ret = IF ok THEN Returned(buffer) ELSE ReturnedNone]
    /\ UNCHANGED <<environ, strongly_typed, trt_version, network, builder_config,
                   config_call, validation, result>>
    /\ UNCHANGED <<configVars, persistVars, shardVars>>


(***************************************************************************)
(* Builder.refit_engine.                                                   *)
(***************************************************************************)
\* decorated(): with _BuildingFlag(), entering refit_engine; lines 261-269
RefitEngineEnter(engine_buffer) ==
    /\ frame.fn = "idle"
    /\ network.exists
    /\ environ' = BuildingFlagEnter(environ)
    /\ frame' = [Idle EXCEPT !.fn = "refit_engine", !.pc = "refit", !.i = 1,
                             !.engine = engine_buffer]
    /\ log' = <<>>
    /\ validation' = NoValidation
    /\ result' = NoResult
    /\ UNCHANGED <<strongly_typed, trt_version, network, builder_config, config_call>>
    /\ UNCHANGED <<configVars, persistVars, shardVars>>

SetNamedWeightsMutant(param, ok) ==
    IF ~param.has_weights
    THEN [calls |-> <<>>, go_on |-> TRUE]
    ELSE [calls |-> <<Call("set_named_weights", param.name, ok)>>, go_on |-> ok]

\* one turn of the refit loop with param, set_named_weights answering ok
SetNamedWeights(param, ok) ==
    IF ~param.has_weights
    THEN [calls |-> <<>>, go_on |-> FALSE]
    ELSE [calls |-> <<Call("set_named_weights", param.name, ok)>>, go_on |-> ok]

\* refit_engine, lines 277-281: named_parameters is None
RefitNoNamedParameters ==
    /\ frame.fn = "refit_engine"
    /\ frame.pc = "refit"
    /\ ~network.named_parameters.set
    /\ frame' = [frame EXCEPT !.pc = "exit", !.ret = ReturnedNone]
    /\ UNCHANGED <<environ, strongly_typed, trt_version, network, builder_config,
                   config_call, log, validation, result>>
    /\ UNCHANGED <<configVars, persistVars, shardVars>>

\* refit_engine, lines 270-276: one turn of the loop
RefitSetNamedWeights(ok) ==
    /\ frame.fn = "refit_engine"
    /\ frame.pc = "refit"
    /\ network.named_parameters.set
    /\ frame.i <= Len(network.named_parameters.params)
    /\ LET r == SetNamedWeights(network.named_parameters.params[frame.i], ok)
       IN  /\ log' = log \o r.calls
           /\ frame' = IF r.go_on
                       THEN [frame EXCEPT !.i = @ + 1]
                       ELSE [frame EXCEPT !.pc = "exit", !.ret = ReturnedNone]
    /\ UNCHANGED <<environ, strongly_typed, trt_version, network, builder_config,
                   config_call, validation, result>>
    /\ UNCHANGED <<configVars, persistVars, shardVars>>

\* refit_engine, lines 283-291: the loop is over; engine.serialize() gives the
\* refitted engine's bytes
RefitCudaEngine(ok) ==
    /\ frame.fn = "refit_engine"
    /\ frame.pc = "refit"
    /\ network.named_parameters.set
    /\ frame.i > Len(network.named_parameters.params)
    /\ log' = Append(log, Call("refit_cuda_engine", "", ok))
    /\ frame' = [frame EXCEPT !.pc = "exit",
                              !.ret = IF ok THEN Returned(frame.engine)
                                      ELSE ReturnedNone]
    /\ UNCHANGED <<environ, strongly_typed, trt_version, network, builder_config,
                   config_call, validation, result>>
    /\ UNCHANGED <<configVars, persistVars, shardVars>>

(***************************************************************************)
(* BuildConfig and its dictionary form.  A dictionary is a function from   *)
(* its keys; a typed plugin's value is False or a dtype string.            *)
(***************************************************************************)
DtypeOff == [on |-> FALSE, dtype |-> ""]

DtypeOn(dtype) == [on |-> TRUE, dtype |-> dtype]

\* config.pop(key, default)
Pop(config, key, default) == IF key \in DOMAIN config THEN config[key] ELSE default

\* the dictionary without the keys popped
Without(config, keys) == [k \in DOMAIN config \ keys |-> config[k]]

\* PluginConfig(): no plugin enabled
DefaultPluginConfig ==
    [gpt_attention_plugin |-> DtypeOff, gemm_plugin |-> DtypeOff,
     lookup_plugin |-> DtypeOff, context_fmha_type |-> "disabled",
     remove_input_padding |-> FALSE, paged_kv_cache |-> FALSE,
     tokens_per_block |-> 64, use_custom_all_reduce |-> FALSE]

set_gpt_attention_plugin(pc, dtype) == [pc EXCEPT !.gpt_attention_plugin = dtype]

set_gemm_plugin(pc, dtype) == [pc EXCEPT !.gemm_plugin = dtype]

set_lookup_plugin(pc, dtype) == [pc EXCEPT !.lookup_plugin = dtype]

set_context_fmha(pc, context_fmha_type) ==
    [pc EXCEPT !.context_fmha_type = context_fmha_type]

enable_remove_input_padding(pc) == [pc EXCEPT !.remove_input_padding = TRUE]

enable_paged_kv_cache(pc, tokens_per_block) ==
    [pc EXCEPT !.paged_kv_cache = TRUE, !.tokens_per_block = tokens_per_block]

\* plugin_config.__dict__ as to_dict copies it: the keys from_dict recognises
PluginConfigDict(pc) ==
    [gpt_attention_plugin |-> pc.gpt_attention_plugin,
     gemm_plugin |-> pc.gemm_plugin,
     lookup_plugin |-> pc.lookup_plugin,
     enable_context_fmha |-> (pc.context_fmha_type = "enabled"),
     enable_context_fmha_fp32_acc |-> (pc.context_fmha_type = "enabled_with_fp32_acc"),
     remove_input_padding |-> pc.remove_input_padding,
     paged_kv_cache |-> pc.paged_kv_cache,
     tokens_per_block |-> pc.tokens_per_block,
     use_custom_all_reduce |-> pc.use_custom_all_reduce]

\* the keys popped without a default, in the order of the pops
RequiredOrder == <<"max_input_len", "max_output_len", "max_batch_size",
                   "max_beam_width", "max_num_tokens">>

RequiredKeys == SeqRange(RequiredOrder)

\* the required keys popped before the first one missing raises KeyError
PoppedBeforeKeyError(config) ==
    {RequiredOrder[j] : j \in {x \in 1..Len(RequiredOrder) :
                                 \A y \in 1..x : RequiredOrder[y] \in DOMAIN config}}

TopKeys == RequiredKeys \cup {"max_prompt_embedding_table_size",
                              "gather_all_token_logits"}

PluginKeys == {"gpt_attention_plugin", "gemm_plugin", "lookup_plugin",
               "enable_context_fmha", "enable_context_fmha_fp32_acc",
               "remove_input_padding", "paged_kv_cache", "tokens_per_block",
               "use_custom_all_reduce"}

\* BuildConfig.__init__
BuildConfig(config, plugin_config) ==
    [max_input_len |-> config["max_input_len"],
     max_output_len |-> config["max_output_len"],
     max_batch_size |-> config["max_batch_size"],
     max_beam_width |-> config["max_beam_width"],
     max_num_tokens |-> config["max_num_tokens"],
     max_prompt_embedding_table_size |->
        Pop(config, "max_prompt_embedding_table_size", 0),
     gather_all_token_logits |-> Pop(config, "gather_all_token_logits", FALSE),
     plugin_config |-> plugin_config]

NoBuildConfig ==
    BuildConfig([k \in RequiredKeys |-> 0], DefaultPluginConfig)

\* if gpt_attention_plugin: plugin_config.set_gpt_attention_plugin(dtype=...)
GptAttentionPluginFromDict(pc, dtype) ==
    IF dtype.on THEN set_gpt_attention_plugin(pc, dtype) ELSE pc

\* if gemm_plugin: plugin_config.set_gemm_plugin(dtype=gemm_plugin)
GemmPluginFromDict(pc, dtype) ==
    IF dtype.on THEN set_gemm_plugin(pc, dtype) ELSE pc

\* if lookup_plugin: plugin_config.set_lookup_plugin(dtype=lookup_plugin)
LookupPluginFromDict(pc, dtype) ==
    IF dtype.on THEN set_lookup_plugin(pc, dtype) ELSE pc

\* if enable_context_fmha: ... ; if enable_context_fmha_fp32_acc: ...
ContextFmhaFromDict(pc, enable_context_fmha, enable_context_fmha_fp32_acc) ==
    IF enable_context_fmha_fp32_acc THEN set_context_fmha(pc, "enabled_with_fp32_acc")
    ELSE IF enable_context_fmha THEN set_context_fmha(pc, "enabled")
    ELSE pc

\* if remove_input_padding: plugin_config.enable_remove_input_padding()
RemoveInputPaddingFromDict(pc, remove_input_padding) ==
    IF remove_input_padding THEN enable_remove_input_padding(pc) ELSE pc

\* if paged_kv_cache: plugin_config.enable_paged_kv_cache(tokens_per_block)
PagedKvCacheFromDict(pc, paged_kv_cache, tokens_per_block) ==
    IF paged_kv_cache THEN enable_paged_kv_cache(pc, tokens_per_block) ELSE pc

\* plugin_config.use_custom_all_reduce = use_custom_all_reduce
CustomAllReduceFromDict(pc, use_custom_all_reduce) ==
    [pc EXCEPT !.use_custom_all_reduce = use_custom_all_reduce]

\* the assertion on the two context-FMHA keys
ContextFmhaAsserted(config) ==
    ~(Pop(config, "enable_context_fmha", FALSE)
      /\ Pop(config, "enable_context_fmha_fp32_acc", FALSE))

\* from_dict: the PluginConfig of the plugin_config block, setter by setter
PluginConfigFromDict(config) ==
    CustomAllReduceFromDict(
      PagedKvCacheFromDict(
        RemoveInputPaddingFromDict(
          ContextFmhaFromDict(
            LookupPluginFromDict(
              GemmPluginFromDict(
                GptAttentionPluginFromDict(
                  DefaultPluginConfig,
                  Pop(config, "gpt_attention_plugin", DtypeOff)),
                Pop(config, "gemm_plugin", DtypeOff)),
              Pop(config, "lookup_plugin", DtypeOff)),
            Pop(config, "enable_context_fmha", FALSE),
            Pop(config, "enable_context_fmha_fp32_acc", FALSE)),
          Pop(config, "remove_input_padding", FALSE)),
        Pop(config, "paged_kv_cache", FALSE),
        Pop(config, "tokens_per_block", 64)),
      Pop(config, "use_custom_all_reduce", FALSE))

\* the keys of the plugin_config block popped before the assertion
PoppedBeforeAssertion ==
    {"gpt_attention_plugin", "gemm_plugin", "lookup_plugin",
     "enable_context_fmha", "enable_context_fmha_fp32_acc"}

\* BuildConfig.from_dict(config): the BuildConfig, or the exception raised,
\* and the dictionary as the pops leave it
FromDict(config) ==
    IF ~(RequiredKeys \subseteq DOMAIN config)
    THEN [ok |-> FALSE, exc |-> "KeyError", obj |-> NoBuildConfig,
          rest |-> Without(config, PoppedBeforeKeyError(config))]
    ELSE IF "plugin_config" \notin DOMAIN config
    THEN [ok |-> TRUE, exc |-> "", obj |-> BuildConfig(config, DefaultPluginConfig),
          rest |-> Without(config, TopKeys)]
    ELSE IF ~ContextFmhaAsserted(config["plugin_config"])
    THEN [ok |-> FALSE, exc |-> "AssertionError", obj |-> NoBuildConfig,
          rest |-> [Without(config, TopKeys) EXCEPT !["plugin_config"] =
                       Without(@, PoppedBeforeAssertion)]]
    ELSE [ok |-> TRUE, exc |-> "",
          obj |-> BuildConfig(config, PluginConfigFromDict(config["plugin_config"])),
          rest |-> [Without(config, TopKeys) EXCEPT !["plugin_config"] =
                       Without(@, PluginKeys)]]

ToDictMutant(self) ==
    [k \in TopKeys |-> self[k]]

\* BuildConfig.to_dict(): __dict__, the plugin config replaced by its __dict__
ToDict(self) ==
    [k \in TopKeys \cup {"plugin_config"} |->
        IF k = "plugin_config" THEN PluginConfigDict(self.plugin_config) ELSE self[k]]

(***************************************************************************)
(* EngineConfig, Engine and the engine directory.  A JSON file holds the   *)
(* dictionary dumped into it; an engine file holds bytes.                  *)
(***************************************************************************)
Ranks == 0..WorldSize - 1

\* PretrainedConfig: the architecture, the dtype and the mapping with its rank
PretrainedConfig(rank) ==
    [architecture |-> "GPTForCausalLM", dtype |-> "float16",
     mapping |-> [world_size |-> WorldSize, rank |-> rank]]

PretrainedConfigToDict(pc) ==
    [architecture |-> pc.architecture, dtype |-> pc.dtype,
     mapping |-> [world_size |-> pc.mapping.world_size, rank |-> pc.mapping.rank]]

PretrainedConfigFromDict(d) ==
    [architecture |-> d["architecture"], dtype |-> d["dtype"],
     mapping |-> [world_size |-> d["mapping"]["world_size"],
                  rank |-> d["mapping"]["rank"]]]

set_rank(pc, rank) == [pc EXCEPT !.mapping.rank = rank]

\* __version__
Version == "0.7.0"

EngineConfig(pretrained_config, build_config, version) ==
    [pretrained_config |-> pretrained_config, build_config |-> build_config,
     version |-> version]

\* EngineConfig.to_dict()
EngineConfigToDict(ec) ==
    [version |-> ec.version,
     pretrained_config |-> PretrainedConfigToDict(ec.pretrained_config),
     build_config |-> ToDict(ec.build_config)]

NoEngineConfig == EngineConfig(PretrainedConfig(0), NoBuildConfig, "")

NoFile == [exists |-> FALSE, content |-> <<>>]

File(content) == [exists |-> TRUE, content |-> content]

\* cls(..., BuildConfig.from_dict(config['build_config']), config['version'])
EngineConfigFromParts(config, build_config) ==
    IF ~build_config.ok
    THEN [ok |-> FALSE, exc |-> build_config.exc, config |-> NoEngineConfig]
    ELSE IF "version" \notin DOMAIN config
    THEN [ok |-> FALSE, exc |-> "KeyError", config |-> NoEngineConfig]
    ELSE [ok |-> TRUE, exc |-> "",
          config |-> EngineConfig(PretrainedConfigFromDict(config["pretrained_config"]),
                                  build_config.obj, config["version"])]

\* EngineConfig.from_json_file(config_file): the arguments of cls(...) are
\* evaluated in order, a missing key raising KeyError
EngineConfigFromJsonFile(file) ==
    IF ~file.exists
    THEN [ok |-> FALSE, exc |-> "FileNotFoundError", config |-> NoEngineConfig]
    ELSE IF "pretrained_config" \notin DOMAIN file.content
            \/ "build_config" \notin DOMAIN file.content
    THEN [ok |-> FALSE, exc |-> "KeyError", config |-> NoEngineConfig]
    ELSE EngineConfigFromParts(file.content, FromDict(file.content["build_config"]))

\* an engine buffer: bytes, or None
NoBuffer == [present |-> FALSE, bytes |-> <<>>]

Buffer(bytes) == [present |-> TRUE, bytes |-> bytes]

Engine(config, engine) == [config |-> config, engine |-> engine]

NoEngine == Engine(NoEngineConfig, NoBuffer)

EmptyDir == [config_json |-> NoFile, rank_engine |-> [r \in Ranks |-> NoFile]]

\* serialize_engine(engine, path): open(path, 'wb') creates or empties the
\* file, bytearray(None) raises TypeError before anything is written
SerializeEngine(engine, rank, dir) ==
    [dir |-> [dir EXCEPT !.rank_engine[rank] = File(engine.bytes)],
     exc |-> IF engine.present THEN "" ELSE "TypeError"]

SaveMutant(e, dir) ==
    SerializeEngine(e.engine, e.config.pretrained_config.mapping.rank,
                    [dir EXCEPT !.config_json = File(EngineConfigToDict(e.config))])

\* Engine.save(engine_dir): the directory afterwards, the exception raised
Save(e, dir) ==
    SerializeEngine(e.engine, e.config.pretrained_config.mapping.rank,
                    IF e.config.pretrained_config.mapping.rank = 0
                    THEN [dir EXCEPT !.config_json = File(EngineConfigToDict(e.config))]
                    ELSE dir)

\* config.pretrained_config.set_rank(rank); return cls(config, engine_buffer)
LoadedEngine(config, engine_buffer, rank) ==
    IF ~config.ok THEN [ok |-> FALSE, exc |-> config.exc, engine |-> NoEngine]
    ELSE [ok |-> TRUE, exc |-> "",
          engine |-> Engine([config.config EXCEPT !.pretrained_config = set_rank(@, rank)],
                            Buffer(engine_buffer))]

FromDirMutant(dir, rank) ==
    IF ~dir.rank_engine[rank].exists
    THEN [ok |-> FALSE, exc |-> "FileNotFoundError", engine |-> NoEngine]
    ELSE LoadedEngine(EngineConfigFromJsonFile(dir.config_json),
                      dir.rank_engine[rank].content, 0)

\* Engine.from_dir(engine_dir, rank)
FromDir(dir, rank) ==
    IF ~dir.rank_engine[rank].exists
    THEN [ok |-> FALSE, exc |-> "FileNotFoundError", engine |-> NoEngine]
    ELSE LoadedEngine(EngineConfigFromJsonFile(dir.config_json),
                      dir.rank_engine[rank].content, rank)

\* get_engine_version(engine_dir): has_value is FALSE for None
GetEngineVersion(dir) ==
    IF ~dir.config_json.exists
    THEN [ok |-> FALSE, exc |-> "FileNotFoundError", has_value |-> FALSE, value |-> ""]
    ELSE IF "version" \notin DOMAIN dir.config_json.content
    THEN [ok |-> TRUE, exc |-> "", has_value |-> FALSE, value |-> ""]
    ELSE [ok |-> TRUE, exc |-> "", has_value |-> TRUE,
          value |-> dir.config_json.content["version"]]

NoSaveCalls == [called |-> {}, returned |-> {}]

NotLoaded == [called |-> FALSE, rank |-> 0, ok |-> FALSE, exc |-> "",
              engine |-> NoEngine, after_save |-> FALSE,
              descriptor |-> FALSE, descriptor_by_save |-> FALSE,
              lacked_version |-> FALSE]

NoVersionResult == [called |-> FALSE, ok |-> FALSE, exc |-> "", has_value |-> FALSE,
                    value |-> "", lacked_version |-> FALSE]

LacksVersion(dir) ==
    dir.config_json.exists /\ "version" \notin DOMAIN dir.config_json.content

\* the ranks whose save was called, and those whose save returned
SaveCalled(calls, rank, exc) ==
    [called |-> calls.called \cup {rank},
     returned |-> IF exc = "" THEN calls.returned \cup {rank}
                  ELSE calls.returned \ {rank}]

\* the process of rank saves its Engine
EngineSave(rank) ==
    /\ rank \in DOMAIN engines
    /\ engine_dir' = Save(engines[rank], engine_dir).dir
    /\ save_calls' = SaveCalled(save_calls, rank, Save(engines[rank], engine_dir).exc)
    /\ UNCHANGED <<engines, loaded, version_result>>
    /\ UNCHANGED <<builderVars, configVars, shardVars>>

\* what Engine.from_dir gave, and what the directory held when it was called
Loaded(r, rank, calls, dir) ==
    [called |-> TRUE, rank |-> rank, ok |-> r.ok, exc |-> r.exc, engine |-> r.engine,
     after_save |-> rank \in calls.returned,
     descriptor |-> dir.config_json.exists,
     descriptor_by_save |-> 0 \in calls.called,
     lacked_version |-> LacksVersion(dir)]

\* Engine.from_dir(engine_dir, rank) is called
EngineFromDir(rank) ==
    /\ rank \in DOMAIN engines
    /\ loaded' = Loaded(FromDir(engine_dir, rank), rank, save_calls, engine_dir)
    /\ UNCHANGED <<engines, engine_dir, save_calls, version_result>>
    /\ UNCHANGED <<builderVars, configVars, shardVars>>

\* what get_engine_version gave, and whether the descriptor lacked the version
VersionResult(r, dir) ==
    [called |-> TRUE, ok |-> r.ok, exc |-> r.exc, has_value |-> r.has_value,
     value |-> r.value, lacked_version |-> LacksVersion(dir)]

\* get_engine_version(engine_dir) is called
EngineVersion ==
    /\ engines # <<>>
    /\ version_result' = VersionResult(GetEngineVersion(engine_dir), engine_dir)
    /\ UNCHANGED <<engines, engine_dir, save_calls, loaded>>
    /\ UNCHANGED <<builderVars, configVars, shardVars>>

(***************************************************************************)
(* BuildConfig.from_dict on a dictionary, then from_dict(to_dict()).       *)
(***************************************************************************)
NotMade == [made |-> FALSE, ok |-> FALSE, exc |-> "", obj |-> NoBuildConfig]

Made(r) == [made |-> TRUE, ok |-> r.ok, exc |-> r.exc, obj |-> r.obj]

\* cls.from_dict(config) is called on the dictionary
BuildConfigFromDict ==
    /\ ~bc.made
    /\ bc' = Made(FromDict(bc_dict))
    /\ bc_dict' = FromDict(bc_dict).rest
    /\ UNCHANGED bc_again
    /\ UNCHANGED <<builderVars, persistVars, shardVars>>

\* BuildConfig.from_dict(x.to_dict()) is called on the BuildConfig made
BuildConfigRoundTrip ==
    /\ bc.made /\ bc.ok
    /\ ~bc_again.made
    /\ bc_again' = Made(FromDict(ToDict(bc.obj)))
    /\ bc_dict' = FromDict(ToDict(bc.obj)).rest
    /\ UNCHANGED bc
    /\ UNCHANGED <<builderVars, persistVars, shardVars>>

(***************************************************************************)
(* build_shard_model(model, build_config): Builder(), create_network, the  *)
(* model's inputs and named parameters, create_builder_config,             *)
(* build_engine, Engine(engine_config, engine).                            *)
(***************************************************************************)
\* QuantMode flags a model's quant_mode holds
ModelQuantModes ==
    {{}, {"FP8_QDQ"}, {"FP8_KV_CACHE"}, {"FP8_QDQ", "FP8_KV_CACHE"}, {"INT8_WEIGHTS"}}

\* QuantMode.has_act_or_weight_quant()
has_act_or_weight_quant(quant_mode) ==
    quant_mode \cap {"INT4_WEIGHTS", "INT8_WEIGHTS", "ACTIVATIONS"} # {}

ModelDtypes == {"float16", "float32"}

\* a PretrainedModel: its config, the config's quant_mode kept beside it
Model(dtype, quant_mode, rank) ==
    [config |-> [PretrainedConfig(rank) EXCEPT !.dtype = dtype],
     quant_mode |-> quant_mode]

Models ==
    {Model(dtype, quant_mode, rank) :
        dtype \in ModelDtypes, quant_mode \in ModelQuantModes, rank \in Ranks}

NoShard ==
    [state |-> "idle", model |-> Model("float16", {}, 0),
     build_config |-> NoBuildConfig]

\* build_shard_model(model, build_config) has been called
ShardCalled(model, build_config) ==
    [state |-> "running", model |-> model, build_config |-> build_config]

\* model.prepare_inputs(...): every input with one shape profile
ShardInputs ==
    {[k \in 1..Len(TensorNames) |-> Tensor(TensorNames[k], <<ps[k]>>)] :
        ps \in [1..Len(TensorNames) -> ShapeProfiles({"seq_len"}, 1)]}

\* lines 536-572: create_network, set_named_parameters, the model's forward
ShardCreateNetwork ==
    /\ shard.state = "running"
    /\ \E inputs \in ShardInputs, params \in ParamLists :
          PrepareNetwork(inputs, NamedParameters(params))

\* lines 574-576: create_builder_config(precision=model.config.dtype,
\* int8=model.config.quant_mode.has_act_or_weight_quant())
ShardCreateBuilderConfig ==
    /\ shard.state = "running"
    /\ network.exists
    /\ ~config_call.called
    /\ CreateBuilderConfig(shard.model.config.dtype, "None", FALSE,
                           has_act_or_weight_quant(shard.model.quant_mode),
                           FALSE, NoOptLevel, NoKwargs)

\* line 579: builder.build_engine(network, builder_config) is entered
ShardBuildEngine ==
    /\ shard.state = "running"
    /\ builder_config.plugin_config = "unset"
    /\ BuildEngineEnter

\* the Engine build_shard_model returns for what build_engine returned
ShardEngine(model, build_config, ret) ==
    Engine(EngineConfig(model.config, build_config, Version),
           IF ret.kind = "engine" THEN Buffer(ret.buffer) ELSE NoBuffer)

\* lines 579-582: build_engine has ended; an exception goes on to the caller,
\* anything returned is wrapped in an Engine
ShardReturn ==
    /\ shard.state = "running"
    /\ frame.fn = "idle"
    /\ result.fn = "build_engine"
    /\ shard' = [shard EXCEPT !.state = IF result.kind = "raised"
                                        THEN "raised" ELSE "returned"]
    /\ engines' = IF result.kind = "raised" THEN engines
                  ELSE [r \in {shard.model.config.mapping.rank} |->
                          ShardEngine(shard.model, shard.build_config, result)]
    /\ UNCHANGED <<engine_dir, save_calls, loaded, version_result>>
    /\ UNCHANGED <<builderVars, configVars>>

(***************************************************************************)
(* The parts of the state a specification leaves at rest.                  *)
(***************************************************************************)
\* no BuildConfig dictionary is being read
ConfigIdle ==
    /\ bc_dict = <<>>
    /\ bc = NotMade
    /\ bc_again = NotMade

\* no Engine exists and the engine directory is empty
PersistIdle ==
    /\ engines = <<>>
    /\ engine_dir = EmptyDir
    /\ save_calls = NoSaveCalls
    /\ loaded = NotLoaded
    /\ version_result = NoVersionResult

\* build_shard_model is not running
ShardIdle == shard = NoShard

\* a Builder that has created nothing
BuilderIdle ==
    /\ environ = FALSE
    /\ strongly_typed = FALSE
    /\ trt_version = <<9, 1, 0>>
    /\ network = NoNetwork
    /\ builder_config = NoBuilderConfig
    /\ config_call = NoConfigCall
    /\ frame = Idle
    /\ log = <<>>
    /\ validation = NoValidation
    /\ result = NoResult

(***************************************************************************)
(* The build / refit specification: one Builder, the caller making         *)
(* networks and builder configs and calling build_engine and refit_engine. *)
(***************************************************************************)
Init ==
    /\ environ = FALSE
    /\ strongly_typed = FALSE
    /\ trt_version \in TrtVersions
    /\ network = NoNetwork
    /\ builder_config = NoBuilderConfig
    /\ config_call = NoConfigCall
    /\ frame = Idle
    /\ log = <<>>
    /\ validation = NoValidation
    /\ result = NoResult
    /\ ConfigIdle
    /\ PersistIdle
    /\ ShardIdle

Next ==
    \/ \E use_refit \in BOOLEAN :
          CreateBuilderConfig("float16", "None", use_refit, FALSE, FALSE,
                              NoOptLevel, NoKwargs)
    \/ \E inputs \in BuildInputs, np \in NamedParameterSets :
          PrepareNetwork(inputs, np)
    \/ BuildEngineEnter
    \/ BuildAddOptimizationProfile
    \/ \E ok \in BOOLEAN : BuildSetWeightsName(ok)
    \/ \E ok \in BOOLEAN, buffer \in EngineBuffers : BuildSerializedNetwork(ok, buffer)
    \/ \E buffer \in EngineBuffers : RefitEngineEnter(buffer)
    \/ RefitNoNamedParameters
    \/ \E ok \in BOOLEAN : RefitSetNamedWeights(ok)
    \/ \E ok \in BOOLEAN : RefitCudaEngine(ok)
    \/ DecoratedExit

Spec == Init /\ [][Next]_vars


(***************************************************************************)
(* The validation specification: build_engine entered on networks whose    *)
(* inputs declare up to MaxDims named dimensions, with a fresh builder     *)
(* config, up to the end of _add_optimization_profile.                     *)
(***************************************************************************)
ValidateTensorNames == <<"input_ids", "position_ids", "last_token_ids">>

\* every tensor with no profile or one; the last one with a single dimension
ValidateInputs ==
    {[k \in 1..Len(ValidateTensorNames) |-> Tensor(ValidateTensorNames[k], ps[k])] :
        ps \in {q \in [1..Len(ValidateTensorNames) ->
                         SeqsUpTo(ShapeProfiles(DimNames, MaxDims), 1)] :
                  \A i \in 1..Len(q[Len(ValidateTensorNames)]) :
                     Len(q[Len(ValidateTensorNames)][i].dimension_names) = 1}}

InitValidate ==
    /\ environ = FALSE
    /\ strongly_typed = FALSE
    /\ trt_version = <<9, 1, 0>>
    /\ network \in {[exists |-> TRUE,
                     flags |-> CreateNetworkFlags(<<9, 1, 0>>, FALSE),
                     inputs |-> inputs,
                     named_parameters |-> NoNamedParameters] :
                       inputs \in ValidateInputs}
    /\ builder_config = NewBuilderConfig("float16", "None", 1, FALSE, FALSE, FALSE,
                                         NoOptLevel, NoKwargs)
    /\ config_call = ConfigCall("float16", "None", FALSE, FALSE, FALSE, NoKwargs)
    /\ frame = Idle
    /\ log = <<>>
    /\ validation = NoValidation
    /\ result = NoResult
    /\ ConfigIdle
    /\ PersistIdle
    /\ ShardIdle

NextValidate ==
    \/ BuildEngineEnter
    \/ BuildAddOptimizationProfile
    \/ DecoratedExit

SpecValidate == InitValidate /\ [][NextValidate]_vars

(***************************************************************************)
(* The configuration specification: create_builder_config over all its     *)
(* arguments, and create_network, on one Builder.                          *)
(***************************************************************************)
NextConfig ==
    \/ \E precision \in Precisions, timing_cache \in TimingCacheArgs,
          use_refit \in BOOLEAN, int8 \in BOOLEAN, st \in BOOLEAN,
          kwargs \in KwargsSet :
          CreateBuilderConfig(precision, timing_cache, use_refit, int8, st,
                              NoOptLevel, kwargs)
    \/ CreateNetwork

SpecConfig == Init /\ [][NextConfig]_vars


(***************************************************************************)
(* The round-trip specification: a dictionary is read by from_dict, the    *)
(* BuildConfig is written by to_dict and read again.                       *)
(***************************************************************************)
\* no key, or the key with one of the values
Optional(key, values) == {<<>>} \cup {key :> v : v \in values}

PluginConfigDicts ==
    {a @@ b @@ c @@ d @@ e @@ f @@ g @@ h @@ i :
        a \in Optional("gpt_attention_plugin", {DtypeOff, DtypeOn("float16")}),
        b \in Optional("gemm_plugin", {DtypeOn("float16")}),
        c \in Optional("lookup_plugin", {DtypeOn("bfloat16")}),
        d \in Optional("enable_context_fmha", BOOLEAN),
        e \in Optional("enable_context_fmha_fp32_acc", {TRUE}),
        f \in Optional("remove_input_padding", {TRUE}),
        g \in Optional("paged_kv_cache", BOOLEAN),
        h \in Optional("tokens_per_block", {128}),
        i \in Optional("use_custom_all_reduce", {TRUE})}

\* the scenario's limits
ScenarioDict ==
    [max_input_len |-> 128, max_output_len |-> 128, max_batch_size |-> 8,
     max_beam_width |-> 1, max_num_tokens |-> 1024]

BuildConfigDicts ==
    {Without(ScenarioDict, missing) @@ a @@ b @@ c :
        missing \in {{}, {"max_beam_width"}, {"max_input_len", "max_num_tokens"}},
        a \in Optional("max_prompt_embedding_table_size", {0, 16}),
        b \in Optional("gather_all_token_logits", BOOLEAN),
        c \in Optional("plugin_config", PluginConfigDicts)}

InitRoundTrip ==
    /\ BuilderIdle
    /\ PersistIdle
    /\ bc_dict \in BuildConfigDicts
    /\ bc = NotMade
    /\ bc_again = NotMade
    /\ ShardIdle

NextRoundTrip ==
    \/ BuildConfigFromDict
    \/ BuildConfigRoundTrip

SpecRoundTrip == InitRoundTrip /\ [][NextRoundTrip]_vars

(***************************************************************************)
(* The persistence specification: the ranks of one build save their        *)
(* Engines into one directory, which starts empty, and load them back.     *)
(***************************************************************************)
PersistBuildConfigs ==
    {FromDict(d).obj :
        d \in {ScenarioDict,
               ScenarioDict @@ ("plugin_config" :>
                   [gpt_attention_plugin |-> DtypeOn("float16"),
                    enable_context_fmha |-> TRUE,
                    paged_kv_cache |-> TRUE, tokens_per_block |-> 128])}}

\* what build_engine hands to Engine(...): bytes, or None
BuildResults == {NoBuffer} \cup {Buffer(b) : b \in EngineBuffers}

BuiltEngines ==
    {[r \in Ranks |->
        Engine(EngineConfig(PretrainedConfig(r), build_config, Version), buffers[r])] :
        build_config \in PersistBuildConfigs, buffers \in [Ranks -> BuildResults]}

\* the directory of an artifact written before descriptors had a version
OldFormatDir ==
    [config_json |-> File([pretrained_config |->
                               PretrainedConfigToDict(PretrainedConfig(0)),
                           build_config |-> ToDict(FromDict(ScenarioDict).obj)]),
     rank_engine |-> [r \in Ranks |-> File(<<7>>)]]

InitPersist ==
    /\ BuilderIdle
    /\ ConfigIdle
    /\ engines \in BuiltEngines
    /\ engine_dir = EmptyDir
    /\ save_calls = NoSaveCalls
    /\ loaded = NotLoaded
    /\ version_result = NoVersionResult
    /\ ShardIdle

NextPersist ==
    \/ \E rank \in Ranks : EngineSave(rank)
    \/ \E rank \in Ranks : EngineFromDir(rank)
    \/ EngineVersion

SpecPersist == InitPersist /\ [][NextPersist]_vars

(***************************************************************************)
(* The artifact specification: as the persistence specification, the       *)
(* directory holding nothing or an older-format artifact at the start.     *)
(***************************************************************************)
InitArtifact ==
    /\ BuilderIdle
    /\ ConfigIdle
    /\ engines \in BuiltEngines
    /\ engine_dir \in {EmptyDir, OldFormatDir}
    /\ save_calls = NoSaveCalls
    /\ loaded = NotLoaded
    /\ version_result = NoVersionResult
    /\ ShardIdle

SpecArtifact == InitArtifact /\ [][NextPersist]_vars

(***************************************************************************)
(* The shard specification: one process runs build_shard_model on its      *)
(* model and saves the Engine it got.                                      *)
(***************************************************************************)
InitShard ==
    /\ BuilderIdle
    /\ ConfigIdle
    /\ PersistIdle
    /\ shard \in {ShardCalled(model, FromDict(ScenarioDict).obj) : model \in Models}

NextShard ==
    \/ ShardCreateNetwork
    \/ ShardCreateBuilderConfig
    \/ ShardBuildEngine
    \/ BuildAddOptimizationProfile
    \/ \E ok \in BOOLEAN : BuildSetWeightsName(ok)
    \/ \E ok \in BOOLEAN, buffer \in EngineBuffers : BuildSerializedNetwork(ok, buffer)
    \/ DecoratedExit
    \/ ShardReturn
    \/ \E rank \in Ranks : EngineSave(rank)

SpecShard == InitShard /\ [][NextShard]_vars

(***************************************************************************)
(* Properties.                                                             *)
(***************************************************************************)
\* the (tensor, range) pairs tensor declares for dimension dim at profile idx
\* (1-based)
DeclaredBy(tensor, idx, dim) ==
    LET p == tensor.profiles[idx]
    IN  {<<tensor.name, <<p.min[d], p.opt[d], p.max[d]>>>> :
            d \in {x \in 1..Len(p.dimension_names) : p.dimension_names[x] = dim}}

Contributions(inputs, idx, dim) ==
    UNION {DeclaredBy(inputs[k], idx, dim) :
             k \in {t \in 1..Len(inputs) : Len(inputs[t].profiles) >= idx}}

Agree(inputs, idx, dim) ==
    \A c1, c2 \in Contributions(inputs, idx, dim) : c1[2] = c2[2]

AttachedProfiles == 1..builder_config.trt_builder_config.num_optimization_profiles

\* C1: when _validate_named_dimensions returns, it returns true exactly if, at
\* every profile index attached to the builder config, every dimension name has
\* one (min, opt, max) triple over all the tensors declaring it; and for every
\* index and name on which tensors disagree the error report lists every
\* tensor declaring that name, with its range.
C1_ValidationIffRangesAgree ==
    (validation.ran /\ ~validation.raised) =>
       /\ validation.valid =
             (\A idx \in AttachedProfiles, dim \in DimNames :
                 Agree(network.inputs, idx, dim))
       /\ \A idx \in AttachedProfiles, dim \in DimNames :
             ~Agree(network.inputs, idx, dim) =>
                \E e \in SeqRange(validation.errors) :
                   /\ e.profile_idx = idx - 1
                   /\ e.dim = dim
                   /\ {<<t[3], t[1]>> : t \in SeqRange(e.tensors)}
                        = Contributions(network.inputs, idx, dim)
                   /\ \A t \in SeqRange(e.tensors) : t[2] = dim

\* the scenario of the specification: seq_len with (1,16,32) on one tensor and
\* (1,16,64) on another fails the build, both tensors listed
C1_Witness ==
    /\ frame.fn = "build_engine"
    /\ frame.ret = Raised("AssertionError")
    /\ validation.ran /\ ~validation.valid
    /\ \E e \in SeqRange(validation.errors) :
          /\ e.dim = "seq_len"
          /\ <<<<1, 16, 32>>, "seq_len", "input_ids">> \in SeqRange(e.tensors)
          /\ <<<<1, 16, 64>>, "seq_len", "position_ids">> \in SeqRange(e.tensors)

CompilerInvoked ==
    \E k \in 1..Len(log) : log[k].op = "build_serialized_network"

\* the call in progress has reached its end, or the last call has ended
CallEnded(fn) ==
    \/ frame.fn = fn /\ frame.pc = "exit"
    \/ frame.fn = "idle" /\ result.fn = fn

\* how that call ends
Outcome == IF frame.fn = "idle" THEN [kind |-> result.kind, exc |-> result.exc]
           ELSE [kind |-> frame.ret.kind, exc |-> frame.ret.exc]

ParamsOf(net) == net.named_parameters.params

\* C2: in a build_engine call build_serialized_network is invoked only after
\* the named-dimension validation returned true and every named parameter had
\* a weight and was named by a successful set_weights_name; a call in which
\* the validation fails, a parameter has no weight or set_weights_name fails
\* ends raising, the compiler not invoked.
C2_CompileOnlyAfterValidation ==
    /\ CompilerInvoked =>
          /\ validation.ran /\ ~validation.raised /\ validation.valid
          /\ \A i \in 1..Len(ParamsOf(network)) :
                /\ ParamsOf(network)[i].has_weights
                /\ \E k \in 1..Len(log) :
                      /\ log[k] = Call("set_weights_name", ParamsOf(network)[i].name, TRUE)
                      /\ \E c \in k + 1..Len(log) : log[c].op = "build_serialized_network"
    /\ (/\ CallEnded("build_engine")
        /\ \/ validation.ran /\ ~validation.valid
           \/ \E i \in 1..Len(ParamsOf(network)) : ~ParamsOf(network)[i].has_weights
           \/ \E k \in 1..Len(log) : log[k].op = "set_weights_name" /\ ~log[k].ok)
       => (Outcome.kind = "raised" /\ ~CompilerInvoked)

C2_Witness ==
    /\ CompilerInvoked
    /\ validation.ran /\ validation.valid
    /\ Len(network.inputs[1].profiles) = 2
    /\ Len(ParamsOf(network)) = 2

\* C3: IS_BUILDING is in the environment exactly while a build_engine or
\* refit_engine call is in progress: set on entry, deleted when the call ends,
\* however it ends, the deletion itself never failing.
C3_IsBuildingWhileCalling ==
    /\ environ = (frame.fn # "idle")
    /\ result.exc # "KeyError"
    /\ frame.ret.exc # "KeyError"

C3_Witness ==
    /\ frame.fn = "idle"
    /\ ~environ
    /\ result.fn = "build_engine"
    /\ result.kind = "raised"
    /\ result.exc = "AssertionError"

C7_NoRefitWithInt8 ==
    /\ (config_call.called /\ config_call.use_refit /\ config_call.int8) =>
          "can't use refit and int8 mode at the same time" \in config_call.messages
    /\ builder_config.exists =>
          /\ ~(builder_config.use_refit /\ builder_config.int8)
          /\ ~({"REFIT", "INT8"} \subseteq builder_config.trt_builder_config.flags)

AllWeightsSet ==
    /\ network.named_parameters.set
    /\ \A i \in 1..Len(ParamsOf(network)) :
          /\ ParamsOf(network)[i].has_weights
          /\ Len(log) >= i
          /\ log[i] = Call("set_named_weights", ParamsOf(network)[i].name, TRUE)

\* C8: refit_engine never raises; it returns the re-serialized engine exactly
\* if the named parameters are set, each has a weight, each set_named_weights
\* succeeded and refit_cuda_engine succeeded, and None otherwise; weights are set
\* in order, nothing is called after a missing weight or a failed set, and
\* refit_cuda_engine is invoked only after every weight was set.
C8_RefitAllOrNothing ==
    (frame.fn = "refit_engine" \/ (frame.fn = "idle" /\ result.fn = "refit_engine")) =>
       /\ Outcome.kind # "raised"
       /\ CallEnded("refit_engine") =>
             /\ Outcome.kind \in {"engine", "None"}
             /\ (Outcome.kind = "engine") =
                   (AllWeightsSet /\ Call("refit_cuda_engine", "", TRUE) \in SeqRange(log))
       /\ \A k \in 1..Len(log) :
             /\ log[k].op = "set_named_weights" =>
                   /\ k <= Len(ParamsOf(network))
                   /\ log[k].arg = ParamsOf(network)[k].name
                   /\ \A j \in 1..k : ParamsOf(network)[j].has_weights
                   /\ ~log[k].ok => k = Len(log)
             /\ log[k].op = "refit_cuda_engine" => (AllWeightsSet /\ k = Len(log))
             /\ log[k].op \in {"set_named_weights", "refit_cuda_engine"}
       /\ (network.named_parameters.set /\
           \E i \in 1..Len(ParamsOf(network)) : ~ParamsOf(network)[i].has_weights)
             => /\ ~(\E k \in 1..Len(log) : log[k].op = "refit_cuda_engine")
                /\ \A i \in 1..Len(ParamsOf(network)) :
                      ~ParamsOf(network)[i].has_weights => Len(log) < i
       /\ (~network.named_parameters.set /\ CallEnded("refit_engine"))
             => (Outcome.kind = "None" /\ log = <<>>)

C8_Witness ==
    /\ frame.fn = "idle"
    /\ result.fn = "refit_engine"
    /\ result.kind = "None"
    /\ Len(ParamsOf(network)) = 2
    /\ Len(log) = 1
    /\ ~log[1].ok

\* C4 as stated: for every rank R, once Engine.save(dir) of the rank-R Engine
\* has returned, Engine.from_dir(dir, R) succeeds, with rank R in the
\* pretrained config and the saved bytes as engine buffer.
C4_SaveThenLoadAnyRank ==
    (loaded.called /\ loaded.after_save) =>
        /\ loaded.ok
        /\ loaded.engine.config.pretrained_config.mapping.rank = loaded.rank
        /\ loaded.engine.engine = engines[loaded.rank].engine

\* C4 amended: once Engine.save(dir) of the rank-R Engine has returned,
\* Engine.from_dir(dir, R) succeeds with rank R and the saved bytes provided
\* the save of rank 0 has written the descriptor into dir; a directory that
\* holds no descriptor makes it raise FileNotFoundError.
C4_SaveThenLoadWithDescriptor ==
    (loaded.called /\ loaded.after_save) =>
        IF loaded.descriptor_by_save
        THEN /\ loaded.ok
             /\ loaded.engine.config.pretrained_config.mapping.rank = loaded.rank
             /\ loaded.engine.engine = engines[loaded.rank].engine
        ELSE /\ ~loaded.descriptor
             /\ ~loaded.ok
             /\ loaded.exc = "FileNotFoundError"

C4_Witness ==
    /\ loaded.called /\ loaded.after_save /\ loaded.descriptor_by_save
    /\ loaded.rank = 1
    /\ loaded.ok
    /\ Len(loaded.engine.engine.bytes) = 2

\* C5: whatever saves the ranks have made into the directory, config.json is
\* there exactly when rank 0 has saved and holds rank 0's descriptor, and
\* rank{N}.engine is there exactly when rank N has saved and holds the bytes of
\* rank N's buffer (none when the buffer is None).
C5_DescriptorByRankZeroOnly ==
    /\ engine_dir.config_json.exists <=> 0 \in save_calls.called
    /\ engine_dir.config_json.exists =>
          engine_dir.config_json.content = EngineConfigToDict(engines[0].config)
    /\ \A n \in Ranks :
          /\ engine_dir.rank_engine[n].exists <=> n \in save_calls.called
          /\ engine_dir.rank_engine[n].exists =>
                engine_dir.rank_engine[n].content = engines[n].engine.bytes

C5_Witness ==
    /\ save_calls.called = Ranks
    /\ save_calls.returned = Ranks
    /\ engine_dir.config_json.exists
    /\ \A n \in Ranks : engine_dir.rank_engine[n].exists
    /\ engine_dir.rank_engine[0].content # engine_dir.rank_engine[1].content

C10_VersionAbsenceIsNoError ==
    /\ (version_result.called /\ version_result.lacked_version) =>
          (version_result.ok /\ ~version_result.has_value)
    /\ (version_result.called /\ version_result.ok
        /\ ~version_result.lacked_version) =>
          (version_result.has_value /\ version_result.value = Version)
    /\ (loaded.called /\ loaded.lacked_version) => loaded.ok

\* C11: the BuilderConfig build_shard_model creates for a model whose
\* quant_mode has FP8 QDQ or FP8 KV-cache quantization has the FP8 and the
\* OBEY_PRECISION_CONSTRAINTS flag on its native config, whatever the dtype.
C11_Fp8FlagsFollowQuantMode ==
    (shard.state # "idle" /\ builder_config.exists
     /\ (has_fp8_qdq(shard.model.quant_mode)
         \/ has_fp8_kv_cache(shard.model.quant_mode))) =>
        {"FP8", "OBEY_PRECISION_CONSTRAINTS"}
            \subseteq builder_config.trt_builder_config.flags

\* C12: an Engine that build_shard_model returned holds an engine buffer, and
\* so does every Engine whose save was called.
C12_EngineOnlyForSuccessfulBuild ==
    /\ \A r \in DOMAIN engines : engines[r].engine.present
    /\ \A r \in save_calls.called : engines[r].engine.present

\* the STRONGLY_TYPED flag of net is as the create_builder_config call asked
StronglyTypedAsRequested(net, call) ==
    "STRONGLY_TYPED" \in net.flags
        <=> (VersionAtLeast(trt_version, <<9, 1, 0>>) /\ call.strongly_typed)

\* C13: a network created after create_builder_config, and a network created
\* before the Builder's first create_builder_config, carry STRONGLY_TYPED
\* exactly when the version is at least 9.1.0 and that call asked for it.
C13_NetworkAgreesWithConfig ==
    [][/\ (network' # network /\ network'.exists /\ config_call.called) =>
             StronglyTypedAsRequested(network', config_call)
       /\ (~config_call.called /\ config_call'.called /\ network.exists) =>
             StronglyTypedAsRequested(network', config_call')]_vars

\* every input declares as many shape profiles as the first input
SameProfileCounts(inputs) ==
    \A k \in 1..Len(inputs) : Len(inputs[k].profiles) = Len(inputs[1].profiles)

\* C14: when a build_engine call ends, on a network whose inputs declare the
\* same number of profiles, the native config has as many optimization
\* profiles as the first input declares and no IndexError was raised,
\* however often build_engine was called with that BuilderConfig before.
C14_ProfilesMatchFirstInput ==
    (frame.fn = "build_engine" /\ frame.pc = "exit"
     /\ SameProfileCounts(network.inputs)) =>
        /\ builder_config.trt_builder_config.num_optimization_profiles
              = Len(network.inputs[1].profiles)
        /\ frame.ret # Raised("IndexError")

====
